---- MODULE Spec2Model ----
(***************************************************************************)
(* A model of frisbee-go's asynchronous connection (src/async.go): the     *)
(* read loop's framing state machine, the write path through the buffered  *)
(* writer, the flush and ping loops, and the shutdown protocol.            *)
(*                                                                         *)
(* Every goroutine is a process with a program counter pc[p] and a return  *)
(* stack stack[p]; writePacket, flush, close and closeWithError are        *)
(* routines any process may be in.  One action is one atomic step of the   *)
(* code: at most one access to shared state (an atomic, a mutex-guarded    *)
(* call, a channel operation, a socket call) plus the local computation    *)
(* around it.                                                              *)
(***************************************************************************)
EXTENDS Integers, Sequences, FiniteSets, TLC

\* ------------------------------------------------------------ bounds
\* Capacity of the read buffer and of the bufio writer (DefaultBufferSize),
\* scaled down so that buffer growth and writer overflow happen.
DefaultBufferSize == 9
\* Frames the peer sends in a framing scenario.
MaxFrames == 2
\* PING ticks of the ping loop in one run.
MaxPings == 1
\* Calls one user task makes in one run.
MaxCalls == 2

\* ------------------------------------------------------------ constants
Size == 8
IdOffset == 0
IdSize == 2
OperationOffset == 2
OperationSize == 2
ContentLengthOffset == 4
ContentLengthSize == 4
RESERVED9 == 9
PING == 10
PONG == 11
STREAM == 12
\* the first operation code left to the user
UserOp == STREAM + 1
FlushChCap == 3

Nil == "nil"
Loops == {"flush", "read", "ping"}
Users == {"u1", "u2"}
Procs == Loops \cup Users

\* ------------------------------------------------------------ codec
Pow256(k) == IF k = 0 THEN 1 ELSE IF k = 1 THEN 256 ELSE IF k = 2 THEN 65536 ELSE 16777216

\* the size bytes of v, least significant first
PutUintLittleEndian(v, size) == [i \in 1..size |-> (v \div Pow256(i - 1)) % 256]

\* binary.BigEndian.PutUintNN: the size bytes of v, most significant first
PutUint(v, size) == [i \in 1..size |-> (v \div Pow256(size - i)) % 256]

\* binary.BigEndian.UintNN of b[off .. off+size) (off is 0-based)
RECURSIVE Uint(_, _, _)
Uint(b, off, size) ==
  IF size = 0 THEN 0
  ELSE Uint(b, off, size - 1) * 256 + b[off + size]

\* the 8 header bytes of a packet (lines 286-288); id and operation are
\* uint16, and the content length, a uint32, is its own four bytes
EncodeHeader(p) ==
  PutUint(p.id % 65536, IdSize) \o PutUint(p.op % 65536, OperationSize)
    \o PutUint(p.cl, ContentLengthSize)

\* metadata.Encode: the Size bytes of an (id, operation, contentLength)
Encode(id, operation, contentLength) ==
  PutUint(id, IdSize) \o PutUint(operation, OperationSize)
    \o PutUint(contentLength, ContentLengthSize)

\* what metadata.Decode returns: a *Metadata (or nil) and an error
Metadata(id, operation, contentLength) ==
  [Id |-> id, Operation |-> operation, ContentLength |-> contentLength]
NoMetadata == Metadata(0, 0, 0)

\* metadata.Decode of the bytes buf
Decode(buf) ==
  IF Len(buf) < Size
  THEN [m |-> NoMetadata, err |-> "InvalidBufferLength"]
  ELSE [m |-> Metadata(Uint(buf, IdOffset, IdSize),
                       Uint(buf, OperationOffset, OperationSize),
                       Uint(buf, ContentLengthOffset, ContentLengthSize)),
        err |-> Nil]

Packet(id, op, cl, content) == [id |-> id, op |-> op, cl |-> cl, content |-> content]
NoPacket == Packet(0, 0, 0, <<>>)
PINGPacket == Packet(0, PING, 0, <<>>)
PONGPacket == Packet(0, PONG, 0, <<>>)

\* the frame of a packet on the wire
Frame(p) == EncodeHeader(p) \o p.content

RECURSIVE Concat(_)
Concat(ss) == IF ss = <<>> THEN <<>> ELSE Head(ss) \o Concat(Tail(ss))

Min2(a, b) == IF a < b THEN a ELSE b

VARIABLES
  closed, error,                 \* Async.closed, Async.error
  connClosed, rdl, wdl,          \* net.Conn: closed, read and write deadline
  faultR, faultW,                \* the socket fails reads / writes
  wire, sock,                    \* bytes the peer sent and not yet read; bytes written
  wbuf, werr,                    \* bufio.Writer: buffered bytes, sticky error
  flushCh, flushChClosed, closeChClosed,
  incoming, incomingClosed, stale,
  streams, streamObjs, handler, spawned,
  wg, panicked,
  pc, stack, perr, wpkt, ret,    \* per process: position, return stack, locals
  rl,                            \* the read loop's locals
  calls, pings, ucall,           \* budgets; the call a user task is in
  scn, sent, wlog, hist, tally,  \* the scenario; history variables
  md                             \* a caller of the metadata package: its call and results

connVars == <<connClosed, rdl, wdl, faultR, faultW, wire, sock>>
writerVars == <<wbuf, werr, wlog>>
chanVars == <<flushCh, flushChClosed, closeChClosed>>
queueVars == <<incoming, incomingClosed, stale>>
streamVars == <<streams, streamObjs, handler, spawned>>
procVars == <<pc, stack, perr, wpkt, ret>>
userVars == <<calls, ucall, scn, md>>
vars == <<closed, error, connVars, writerVars, chanVars, queueVars, streamVars,
          wg, panicked, procVars, rl, userVars, pings, sent, hist, tally>>

\* ------------------------------------------------------------ processes
\* what a call returns: an error (or nil), and a packet or a stream
Result(e, q, i) == [err |-> e, pkt |-> q, obj |-> i]

Goto(p, l) == pc' = [pc EXCEPT ![p] = l]

\* return v from the routine p is in, to the label its caller left
Return(p, v) ==
  /\ pc' = [pc EXCEPT ![p] = Head(stack[p])]
  /\ stack' = [stack EXCEPT ![p] = Tail(stack[p])]
  /\ ret' = [ret EXCEPT ![p] = Result(v, NoPacket, 0)]

\* return packet q
ReturnPacket(p, q) ==
  /\ pc' = [pc EXCEPT ![p] = Head(stack[p])]
  /\ stack' = [stack EXCEPT ![p] = Tail(stack[p])]
  /\ ret' = [ret EXCEPT ![p] = Result(Nil, q, 0)]

\* enter a routine at label entry, to come back at label back
Call(p, entry, back) ==
  /\ pc' = [pc EXCEPT ![p] = entry]
  /\ stack' = [stack EXCEPT ![p] = <<back>> \o @]

\* c.closeWithError(e), to come back at label back: its first act is c.close()
CallCloseWithError(p, e, back) ==
  /\ pc' = [pc EXCEPT ![p] = "c_cas"]
  /\ stack' = [stack EXCEPT ![p] = <<"cwe_ret", back>> \o @]
  /\ perr' = [perr EXCEPT ![p] = e]

\* wg.Done() of loop l
WgDone(l) ==
  /\ wg' = wg - 1
  /\ tally' = [tally EXCEPT !.done[l] = @ + 1]

\* ------------------------------------------------------------ socket
\* what a write to the socket returns
ConnWriteErr ==
  IF connClosed THEN "eNetClosed"
  ELSE IF faultW THEN "eIO"
  ELSE IF wdl = "past" THEN "eTimeout"
  ELSE Nil

\* the errors a SetReadDeadline followed by a Read can return now.  A Read
\* blocked on a silent peer ends by its deadline; the model lets it expire
\* once the endpoint is closed (an idle timeout of an open endpoint is a
\* read fault).
ConnReadErrs ==
  IF connClosed THEN {"eNetClosed"}
  ELSE (IF faultR THEN {"eIO"} ELSE {})
       \cup (IF rdl = "past" \/ (closed /\ wire = <<>>) THEN {"eTimeout"} ELSE {})

\* whether that Read can return bytes
ConnCanRead == ~connClosed /\ ~faultR /\ wire # <<>>

\* how many bytes a Read into space bytes can return: any number in a
\* scenario that splits the stream, all there is in the others
ReadSizes(space) ==
  IF scn.split THEN 1..Min2(Len(wire), space)
  ELSE {Min2(Len(wire), space)}

\* ------------------------------------------------------------ buffered writer
\* bufio.Writer.Write(p) under BufferedWriter.mu: b buffered, e the sticky
\* error, out the bytes that reached the socket during the call
RECURSIVE BufioWrite(_, _, _, _)
BufioWrite(b, e, out, p) ==
  IF Len(p) > DefaultBufferSize - Len(b) /\ e = Nil
  THEN IF Len(b) = 0
       THEN \* large write, empty buffer: straight to the socket
            IF ConnWriteErr = Nil
            THEN BufioWrite(b, e, out \o p, <<>>)
            ELSE BufioWrite(b, ConnWriteErr, out, p)
       ELSE LET k == DefaultBufferSize - Len(b)
                full == b \o SubSeq(p, 1, k)
                rest == SubSeq(p, k + 1, Len(p))
            IN IF ConnWriteErr = Nil
               THEN BufioWrite(<<>>, e, out \o full, rest)
               ELSE BufioWrite(full, ConnWriteErr, out, rest)
  ELSE IF e # Nil
       THEN [buf |-> b, err |-> e, out |-> out]
       ELSE [buf |-> b \o p, err |-> Nil, out |-> out]

\* bufio.Writer.Flush() under BufferedWriter.mu
BufioFlush(b, e) ==
  IF e # Nil THEN [buf |-> b, err |-> e, out |-> <<>>]
  ELSE IF Len(b) = 0 THEN [buf |-> b, err |-> Nil, out |-> <<>>]
  ELSE IF ConnWriteErr = Nil THEN [buf |-> <<>>, err |-> Nil, out |-> b]
  ELSE [buf |-> b, err |-> ConnWriteErr, out |-> <<>>]

\* bw.Write(bytes) by process p writing part (header or content) of wpkt[p]
WriterWrite(p, bytes, part, okLabel) ==
  LET r == BufioWrite(wbuf, werr, <<>>, bytes) IN
  /\ wbuf' = r.buf
  /\ werr' = r.err
  /\ sock' = sock \o r.out
  /\ IF r.err = Nil
     THEN /\ wlog' = Append(wlog, [w |-> p, part |-> part, cl |-> wpkt[p].cl])
          /\ Goto(p, okLabel)
          /\ perr' = perr
     ELSE /\ wlog' = wlog
          /\ Goto(p, "wp_err")
          /\ perr' = [perr EXCEPT ![p] = r.err]

\* ------------------------------------------------------------ writePacket
\* a faulty writePacket: the closed check comes before the length check
WP_CheckClosedFirst(p) ==
  /\ pc[p] = "wp_check"
  /\ IF closed
     THEN Return(p, "ConnectionClosed")
     ELSE IF wpkt[p].cl # Len(wpkt[p].content)
          THEN Return(p, "InvalidContentLength")
          ELSE Goto(p, "wp_deadline") /\ UNCHANGED <<stack, ret>>
  /\ UNCHANGED <<closed, error, connVars, writerVars, chanVars, queueVars, streamVars,
                 wg, panicked, perr, wpkt, rl, userVars, pings, sent, hist, tally>>

\* lines 281-292: the length check and the closed check
WP_Check(p) ==
  /\ pc[p] = "wp_check"
  /\ IF wpkt[p].cl # Len(wpkt[p].content)
     THEN Return(p, "InvalidContentLength")
     ELSE IF closed
          THEN Return(p, "ConnectionClosed")
          ELSE Goto(p, "wp_deadline") /\ UNCHANGED <<stack, ret>>
  /\ UNCHANGED <<closed, error, connVars, writerVars, chanVars, queueVars, streamVars,
                 wg, panicked, perr, wpkt, rl, userVars, pings, sent, hist, tally>>

\* line 293: c.conn.SetWriteDeadline
WP_Deadline(p) ==
  /\ pc[p] = "wp_deadline"
  /\ IF connClosed
     THEN Goto(p, "wp_err") /\ perr' = [perr EXCEPT ![p] = "eNetClosed"] /\ wdl' = wdl
     ELSE Goto(p, "wp_header") /\ perr' = perr /\ wdl' = "future"
  /\ UNCHANGED <<closed, error, connClosed, rdl, faultR, faultW, wire, sock, writerVars,
                 chanVars, queueVars, streamVars, wg, panicked, stack, wpkt, ret, rl,
                 userVars, pings, sent, hist, tally>>

\* line 303: c.writer.Write(encodedMetadata[:])
WP_Header(p) ==
  /\ pc[p] = "wp_header"
  /\ WriterWrite(p, EncodeHeader(wpkt[p]), "header",
                 IF wpkt[p].cl # 0 THEN "wp_content" ELSE "wp_len")
  /\ UNCHANGED <<closed, error, connClosed, rdl, wdl, faultR, faultW, wire,
                 chanVars, queueVars, streamVars, wg, panicked, stack, wpkt, ret, rl,
                 userVars, pings, sent, hist, tally>>

\* line 314: c.writer.Write((*p.Content)[:p.Metadata.ContentLength])
WP_Content(p) ==
  /\ pc[p] = "wp_content"
  /\ WriterWrite(p, SubSeq(wpkt[p].content, 1, wpkt[p].cl), "content", "wp_len")
  /\ UNCHANGED <<closed, error, connClosed, rdl, wdl, faultR, faultW, wire,
                 chanVars, queueVars, streamVars, wg, panicked, stack, wpkt, ret, rl,
                 userVars, pings, sent, hist, tally>>

\* the error branches (lines 295-300, 306-311, 316-321)
WP_Err(p) ==
  /\ pc[p] = "wp_err"
  /\ IF closed
     THEN Return(p, "ConnectionClosed") /\ perr' = perr
     ELSE \* return c.closeWithError(err): its result is writePacket's
          /\ Goto(p, "c_cas")
          /\ stack' = [stack EXCEPT ![p] = <<"cwe_ret">> \o @]
          /\ UNCHANGED <<perr, ret>>
  /\ UNCHANGED <<closed, error, connVars, writerVars, chanVars, queueVars, streamVars,
                 wg, panicked, wpkt, rl, userVars, pings, sent, hist, tally>>

\* a faulty signal: the writer leaves without waking the flush loop
WP_LenNeverSignals(p) ==
  /\ pc[p] = "wp_len"
  /\ Return(p, Nil)
  /\ UNCHANGED <<closed, error, connVars, writerVars, chanVars, queueVars, streamVars,
                 wg, panicked, perr, wpkt, rl, userVars, pings, sent, hist, tally>>

\* line 325: len(c.flushCh) == 0
WP_Len(p) ==
  /\ pc[p] = "wp_len"
  /\ IF flushCh = 0
     THEN Goto(p, "wp_send") /\ UNCHANGED <<stack, ret>>
     ELSE Return(p, Nil)
  /\ UNCHANGED <<closed, error, connVars, writerVars, chanVars, queueVars, streamVars,
                 wg, panicked, perr, wpkt, rl, userVars, pings, sent, hist, tally>>

\* lines 326-329: the non-blocking send; a send on a closed channel panics
WP_Send(p) ==
  /\ pc[p] = "wp_send"
  /\ IF flushChClosed
     THEN \* send on a closed channel: the panic ends every goroutine
          /\ panicked' = TRUE
          /\ pc' = [q \in Procs |-> "panic"]
          /\ UNCHANGED <<flushCh, stack, ret, perr, wpkt>>
     ELSE /\ flushCh' = IF flushCh < FlushChCap THEN flushCh + 1 ELSE flushCh
          /\ Return(p, Nil)
          /\ UNCHANGED <<panicked, perr, wpkt>>
  /\ UNCHANGED <<closed, error, connVars, writerVars, flushChClosed, closeChClosed,
                 queueVars, streamVars, wg, rl, userVars, pings, sent, hist, tally>>

\* ------------------------------------------------------------ flush
\* lines 339-341
F_Closed(p) ==
  /\ pc[p] = "f_closed"
  /\ IF closed
     THEN Return(p, "ConnectionClosed")
     ELSE Goto(p, "f_buffered") /\ UNCHANGED <<stack, ret>>
  /\ UNCHANGED <<closed, error, connVars, writerVars, chanVars, queueVars, streamVars,
                 wg, panicked, perr, wpkt, rl, userVars, pings, sent, hist, tally>>

\* lines 343-344: c.writer.Buffered()
F_Buffered(p) ==
  /\ pc[p] = "f_buffered"
  /\ IF Len(wbuf) > 0
     THEN Goto(p, "f_deadline") /\ UNCHANGED <<stack, ret>>
     ELSE Return(p, Nil)
  /\ UNCHANGED <<closed, error, connVars, writerVars, chanVars, queueVars, streamVars,
                 wg, panicked, perr, wpkt, rl, userVars, pings, sent, hist, tally>>

\* lines 345-348: c.conn.SetWriteDeadline
F_Deadline(p) ==
  /\ pc[p] = "f_deadline"
  /\ IF connClosed
     THEN Return(p, "eNetClosed") /\ wdl' = wdl
     ELSE Goto(p, "f_flush") /\ wdl' = "future" /\ UNCHANGED <<stack, ret>>
  /\ UNCHANGED <<closed, error, connClosed, rdl, faultR, faultW, wire, sock, writerVars,
                 chanVars, queueVars, streamVars, wg, panicked, perr, wpkt, rl,
                 userVars, pings, sent, hist, tally>>

\* lines 350-356: c.writer.Flush()
F_Flush(p) ==
  /\ pc[p] = "f_flush"
  /\ LET r == BufioFlush(wbuf, werr) IN
     /\ wbuf' = r.buf
     /\ werr' = r.err
     /\ sock' = sock \o r.out
     /\ Return(p, r.err)
  /\ UNCHANGED <<closed, error, connClosed, rdl, wdl, faultR, faultW, wire, wlog,
                 chanVars, queueVars, streamVars, wg, panicked, perr, wpkt, rl,
                 userVars, pings, sent, hist, tally>>

\* ------------------------------------------------------------ close
\* a faulty close: the flag is set without the compare, every caller goes on
C_CasNoCompare(p) ==
  /\ pc[p] = "c_cas"
  /\ closed' = TRUE
  /\ hist' = [hist EXCEPT !.closer = p, !.nAtClose = Len(hist.pushed),
                           !.cause = IF Head(stack[p]) = "cwe_ret" THEN perr[p] ELSE Nil]
  /\ Goto(p, "c_incoming")
  /\ UNCHANGED <<stack, ret>>
  /\ UNCHANGED <<error, connVars, writerVars, chanVars, queueVars, streamVars,
                 wg, panicked, perr, wpkt, rl, userVars, pings, sent, tally>>

\* lines 360-362: c.closed.CompareAndSwap(false, true)
C_Cas(p) ==
  /\ pc[p] = "c_cas"
  /\ IF closed
     THEN /\ Return(p, "ConnectionClosed")
          /\ hist' = [hist EXCEPT !.after = IF error # Nil THEN @ \cup {p} ELSE @]
          /\ closed' = closed
     ELSE /\ closed' = TRUE
          /\ hist' = [hist EXCEPT !.closer = p, !.nAtClose = Len(hist.pushed),
                                   !.cause = IF Head(stack[p]) = "cwe_ret" THEN perr[p] ELSE Nil]
          /\ Goto(p, "c_incoming")
          /\ UNCHANGED <<stack, ret>>
  /\ UNCHANGED <<error, connVars, writerVars, chanVars, queueVars, streamVars,
                 wg, panicked, perr, wpkt, rl, userVars, pings, sent, tally>>

\* line 366: c.incoming.Close()
C_Incoming(p) ==
  /\ pc[p] = "c_incoming"
  /\ incomingClosed' = TRUE
  /\ tally' = [tally EXCEPT !.incomingClose = @ + 1]
  /\ Goto(p, "c_closeCh")
  /\ UNCHANGED <<closed, error, connVars, writerVars, chanVars, incoming, stale, streamVars,
                 wg, panicked, stack, perr, wpkt, ret, rl, userVars, pings, sent, hist>>

\* line 367: close(c.closeCh)
C_CloseCh(p) ==
  /\ pc[p] = "c_closeCh"
  /\ closeChClosed' = TRUE
  /\ tally' = [tally EXCEPT !.closeCh = @ + 1]
  /\ Goto(p, "c_flushCh")
  /\ UNCHANGED <<closed, error, connVars, writerVars, flushCh, flushChClosed, queueVars,
                 streamVars, wg, panicked, stack, perr, wpkt, ret, rl, userVars, pings,
                 sent, hist>>

\* line 368: close(c.flushCh)
C_FlushCh(p) ==
  /\ pc[p] = "c_flushCh"
  /\ flushChClosed' = TRUE
  /\ tally' = [tally EXCEPT !.flushCh = @ + 1]
  /\ Goto(p, "c_deadline")
  /\ UNCHANGED <<closed, error, connVars, writerVars, flushCh, closeChClosed, queueVars,
                 streamVars, wg, panicked, stack, perr, wpkt, ret, rl, userVars, pings,
                 sent, hist>>

\* line 370: c.conn.SetDeadline(pastTime), its error ignored
C_Deadline(p) ==
  /\ pc[p] = "c_deadline"
  /\ rdl' = IF connClosed THEN rdl ELSE "past"
  /\ wdl' = IF connClosed THEN wdl ELSE "past"
  /\ Goto(p, "c_wait")
  /\ UNCHANGED <<closed, error, connClosed, faultR, faultW, wire, sock, writerVars,
                 chanVars, queueVars, streamVars, wg, panicked, stack, perr, wpkt, ret,
                 rl, userVars, pings, sent, hist, tally>>

\* line 371: c.wg.Wait() returns once the three loops have called Done
C_Wait(p) ==
  /\ pc[p] = "c_wait"
  /\ wg = 0
  /\ Goto(p, "c_deadline2")
  /\ UNCHANGED <<closed, error, connVars, writerVars, chanVars, queueVars, streamVars,
                 wg, panicked, stack, perr, wpkt, ret, rl, userVars, pings, sent, hist,
                 tally>>

\* line 372: c.conn.SetDeadline(emptyTime)
C_Deadline2(p) ==
  /\ pc[p] = "c_deadline2"
  /\ rdl' = IF connClosed THEN rdl ELSE "none"
  /\ wdl' = IF connClosed THEN wdl ELSE "none"
  /\ Goto(p, "c_drain")
  /\ UNCHANGED <<closed, error, connClosed, faultR, faultW, wire, sock, writerVars,
                 chanVars, queueVars, streamVars, wg, panicked, stack, perr, wpkt, ret,
                 rl, userVars, pings, sent, hist, tally>>

\* line 373: c.stalePackets.Set(c.incoming.Drain())
C_Drain(p) ==
  /\ pc[p] = "c_drain"
  /\ stale' = incoming
  /\ incoming' = <<>>
  /\ tally' = [tally EXCEPT !.drain = @ + 1]
  /\ Goto(p, "c_closeAll")
  /\ UNCHANGED <<closed, error, connVars, writerVars, chanVars, incomingClosed, streamVars,
                 wg, panicked, stack, perr, wpkt, ret, rl, userVars, pings, sent, hist>>

\* Stream.close(): the stream's queue is closed for its readers
StreamClose(objs, i) == [objs EXCEPT ![i].closed = TRUE]

\* line 375: c.streams.CloseAll() closes every registered stream
C_CloseAll(p) ==
  /\ pc[p] = "c_closeAll"
  /\ streamObjs' = [i \in DOMAIN streamObjs |->
                      IF \E id \in DOMAIN streams : streams[id] = i
                      THEN StreamClose(streamObjs, i)[i]
                      ELSE streamObjs[i]]
  /\ tally' = [tally EXCEPT !.closeAll = @ + 1]
  /\ Goto(p, "c_final")
  /\ UNCHANGED <<closed, error, connVars, writerVars, chanVars, queueVars, streams, handler,
                 spawned, wg, panicked, stack, perr, wpkt, ret, rl, userVars, pings, sent,
                 hist>>

\* line 377: c.writer.Buffered() > 0
C_Final(p) ==
  /\ pc[p] = "c_final"
  /\ IF Len(wbuf) > 0
     THEN Goto(p, "c_finalDeadline") /\ UNCHANGED <<stack, ret, tally>>
     ELSE Return(p, Nil) /\ tally' = [tally EXCEPT !.closeNil = @ + 1]
  /\ UNCHANGED <<closed, error, connVars, writerVars, chanVars, queueVars, streamVars,
                 wg, panicked, perr, wpkt, rl, userVars, pings, sent, hist>>

\* line 378: c.conn.SetWriteDeadline, its error ignored
C_FinalDeadline(p) ==
  /\ pc[p] = "c_finalDeadline"
  /\ wdl' = IF connClosed THEN wdl ELSE "future"
  /\ Goto(p, "c_finalFlush")
  /\ UNCHANGED <<closed, error, connClosed, rdl, faultR, faultW, wire, sock, writerVars,
                 chanVars, queueVars, streamVars, wg, panicked, stack, perr, wpkt, ret,
                 rl, userVars, pings, sent, hist, tally>>

\* lines 379-382: c.writer.Flush(), the deadline reset, return nil
C_FinalFlush(p) ==
  /\ pc[p] = "c_finalFlush"
  /\ LET r == BufioFlush(wbuf, werr) IN
     /\ wbuf' = r.buf
     /\ werr' = r.err
     /\ sock' = sock \o r.out
  /\ wdl' = IF connClosed THEN wdl ELSE "none"
  /\ Return(p, Nil)
  /\ tally' = [tally EXCEPT !.closeNil = @ + 1]
  /\ UNCHANGED <<closed, error, connClosed, rdl, faultR, faultW, wire, wlog,
                 chanVars, queueVars, streamVars, wg, panicked, perr, wpkt, rl,
                 userVars, pings, sent, hist>>

\* a faulty closeWithError: the test of c.close() is inverted, the cause is
\* stored by the callers that found the connection closed already
CWE_StoreOnLoss(p) ==
  /\ pc[p] = "cwe_ret"
  /\ IF ret[p].err = Nil
     THEN Return(p, perr[p]) /\ UNCHANGED <<error, tally>>
     ELSE /\ error' = perr[p]
          /\ tally' = [tally EXCEPT !.stores = @ + 1]
          /\ Goto(p, "cwe_connClose")
          /\ UNCHANGED <<stack, ret>>
  /\ UNCHANGED <<closed, connVars, writerVars, chanVars, queueVars, streamVars,
                 wg, panicked, perr, wpkt, rl, userVars, pings, sent, hist>>

\* ------------------------------------------------------------ closeWithError
\* a faulty closeWithError: the cause is stored whatever c.close() returned
CWE_StoreAlways(p) ==
  /\ pc[p] = "cwe_ret"
  /\ error' = perr[p]
  /\ tally' = [tally EXCEPT !.stores = @ + 1]
  /\ IF ret[p].err # Nil
     THEN Return(p, ret[p].err)
     ELSE Goto(p, "cwe_connClose") /\ UNCHANGED <<stack, ret>>
  /\ UNCHANGED <<closed, connVars, writerVars, chanVars, queueVars, streamVars,
                 wg, panicked, perr, wpkt, rl, userVars, pings, sent, hist>>

\* lines 386-390: the result of c.close(), then c.error.Store(err)
CWE_Store(p) ==
  /\ pc[p] = "cwe_ret"
  /\ IF ret[p].err # Nil
     THEN Return(p, ret[p].err) /\ UNCHANGED <<error, tally>>
     ELSE /\ error' = perr[p]
          /\ tally' = [tally EXCEPT !.stores = @ + 1]
          /\ Goto(p, "cwe_connClose")
          /\ UNCHANGED <<stack, ret>>
  /\ UNCHANGED <<closed, connVars, writerVars, chanVars, queueVars, streamVars,
                 wg, panicked, perr, wpkt, rl, userVars, pings, sent, hist>>

\* lines 391-392: c.conn.Close(), return err
CWE_ConnClose(p) ==
  /\ pc[p] = "cwe_connClose"
  /\ connClosed' = TRUE
  /\ Return(p, perr[p])
  /\ UNCHANGED <<closed, error, rdl, wdl, faultR, faultW, wire, sock, writerVars,
                 chanVars, queueVars, streamVars, wg, panicked, perr, wpkt, rl,
                 userVars, pings, sent, hist, tally>>

\* ------------------------------------------------------------ flush loop
\* lines 397-401: receive from flushCh; exit when it is closed and empty
FL_Recv ==
  /\ pc["flush"] = "fl_recv"
  /\ IF flushCh > 0
     THEN /\ flushCh' = flushCh - 1
          /\ Call("flush", "f_closed", "fl_ret")
          /\ UNCHANGED <<wg, tally>>
     ELSE /\ flushChClosed
          /\ WgDone("flush")
          /\ Goto("flush", "done")
          /\ UNCHANGED <<flushCh, stack>>
  /\ UNCHANGED <<closed, error, connVars, writerVars, flushChClosed, closeChClosed,
                 queueVars, streamVars, panicked, perr, wpkt, ret, rl, userVars, pings,
                 sent, hist>>

\* a loop's error exit, c.wg.Done() and then c.closeWithError(err) (lines
\* 403-405, 424-426, 442-443 and the like): the loop leaves with cause e
LoopFail(l, e) ==
  /\ WgDone(l)
  /\ CallCloseWithError(l, e, "done")

\* lines 402-406: the result of c.flush()
FL_Ret ==
  /\ pc["flush"] = "fl_ret"
  /\ IF ret["flush"].err = Nil
     THEN Goto("flush", "fl_recv") /\ UNCHANGED <<wg, tally, stack, perr>>
     ELSE LoopFail("flush", ret["flush"].err)
  /\ UNCHANGED <<closed, error, connVars, writerVars, chanVars, queueVars, streamVars,
                 panicked, wpkt, ret, rl, userVars, pings, sent, hist>>

\* ------------------------------------------------------------ ping loop
\* lines 418-420: closeCh is closed
PL_Closed ==
  /\ pc["ping"] = "pl_select"
  /\ closeChClosed
  /\ WgDone("ping")
  /\ Goto("ping", "done")
  /\ UNCHANGED <<closed, error, connVars, writerVars, chanVars, queueVars, streamVars,
                 panicked, stack, perr, wpkt, ret, rl, userVars, pings, sent, hist>>

\* lines 421-422: the ticker fires, c.writePacket(PINGPacket)
PL_Tick ==
  /\ pc["ping"] = "pl_select"
  /\ pings > 0
  /\ pings' = pings - 1
  /\ wpkt' = [wpkt EXCEPT !["ping"] = PINGPacket]
  /\ Call("ping", "wp_check", "pl_ret")
  /\ UNCHANGED <<closed, error, connVars, writerVars, chanVars, queueVars, streamVars,
                 wg, panicked, perr, ret, rl, userVars, sent, hist, tally>>

\* lines 423-427: the result of writePacket
PL_Ret ==
  /\ pc["ping"] = "pl_ret"
  /\ IF ret["ping"].err = Nil
     THEN Goto("ping", "pl_select") /\ UNCHANGED <<wg, tally, stack, perr>>
     ELSE LoopFail("ping", ret["ping"].err)
  /\ UNCHANGED <<closed, error, connVars, writerVars, chanVars, queueVars, streamVars,
                 panicked, wpkt, ret, rl, userVars, pings, sent, hist>>

\* ------------------------------------------------------------ stream registry
\* a faulty lookup: any registered stream, whatever its id
GetAnyStream(id) ==
  IF DOMAIN streams # {} THEN streams[CHOOSE i \in DOMAIN streams : TRUE] ELSE 0

\* Streams.Get
Get(id) == IF id \in DOMAIN streams THEN streams[id] ELSE 0

\* Streams.Remove
Remove(id) == [i \in DOMAIN streams \ {id} |-> streams[i]]

\* newStream(id, c): a fresh open stream with an empty queue
NewStreamObj(id) == [id |-> id, queue |-> <<>>, closed |-> FALSE]

\* Streams.Create: always constructs, overwriting the entry of id
Create(id) == [i \in DOMAIN streams \cup {id} |->
                 IF i = id THEN Len(streamObjs) + 1 ELSE streams[i]]

\* Streams.CreateWithCheckOfExistence: the entry of id, constructed if absent
CreateWithCheckOfExistence(id) == IF Get(id) # 0 THEN streams ELSE Create(id)

\* ------------------------------------------------------------ read loop
\* append(buf[:cap(buf)], 0) until cap(buf) >= min: the runtime doubles a
\* small slice
RECURSIVE Grow(_, _)
Grow(cap, min) == IF cap < min THEN Grow(2 * cap, min) ELSE cap

\* a faulty compaction: the tail shorter than a header is not moved to the
\* front, the next header is read over it
CompactLosesTail(r) ==
  LET q == [r EXCEPT !.p = NoPacket] IN
  IF q.n = q.index
  THEN [pc |-> "rl_hdr2", rl |-> [q EXCEPT !.index = 0, !.n = 0, !.buf = <<>>]]
  ELSE IF q.n - q.index < Size
       THEN [pc |-> "rl_hdr2", rl |-> [q EXCEPT !.index = 0, !.n = 0, !.buf = <<>>]]
       ELSE [pc |-> "rl_parse", rl |-> q]

\* lines 576-638, buffer compaction: the buffer exactly consumed, a tail
\* shorter than a header moved to the front, or the next header in place
Compact(r) ==
  LET q == [r EXCEPT !.p = NoPacket] IN
  IF q.n = q.index
  THEN [pc |-> "rl_hdr2", rl |-> [q EXCEPT !.index = 0, !.n = 0, !.buf = <<>>]]
  ELSE IF q.n - q.index < Size
       THEN [pc |-> "rl_hdr3",
             rl |-> [q EXCEPT !.buf = SubSeq(q.buf, q.index + 1, q.n),
                              !.index = q.n - q.index,
                              !.min = Size - (q.n - q.index),
                              !.n = 0]]
       ELSE [pc |-> "rl_parse", rl |-> q]

\* lines 572-574, the locals reset at the end of the default case, and then
\* the compaction
AfterPacket(r) == Compact([r EXCEPT !.nsh = FALSE, !.stream = 0, !.isStream = FALSE])

\* lines 502-534: the payload, from the bytes buffered or by reading more
PayloadStep(r) ==
  IF r.p.cl > 0
  THEN IF r.n - r.index < r.p.cl
       THEN [pc |-> "rl_pay",
             rl |-> [r EXCEPT !.p.content = @ \o SubSeq(r.buf, r.index + 1, r.n),
                              !.min = r.p.cl - (r.n - r.index),
                              !.n = 0,
                              !.buf = <<>>,
                              !.cap = Grow(r.cap, r.p.cl - (r.n - r.index))]]
       ELSE [pc |-> "rl_route",
             rl |-> [r EXCEPT !.p.content = @ \o SubSeq(r.buf, r.index + 1, r.index + r.p.cl),
                              !.index = r.index + r.p.cl]]
  ELSE [pc |-> "rl_route", rl |-> r]

\* a faulty lookup: the close sentinel is looked up only under a handler
StreamLookupHandlerOnly(h, cl, id) == IF h THEN Get(id) ELSE 0

\* lines 497-499: the stream of a STREAM packet is looked up when a handler
\* is installed or the packet is a close sentinel; it stays nil otherwise
StreamLookup(h, cl, id) == IF h \/ cl = 0 THEN Get(id) ELSE 0

\* the header at index (lines 472-476)
ParseHeader(r) ==
  [r EXCEPT !.p = Packet(Uint(r.buf, r.index + IdOffset, IdSize),
                         Uint(r.buf, r.index + OperationOffset, OperationSize),
                         Uint(r.buf, r.index + ContentLengthOffset, ContentLengthSize),
                         <<>>),
            !.index = r.index + Size]

\* one SetReadDeadline and Read of the header loops at lines 449-468 and
\* 585-603, into buf[n:]
RL_Header ==
  /\ pc["read"] \in {"rl_hdr1", "rl_hdr2"}
  /\ \/ \E e \in ConnReadErrs :
          /\ LoopFail("read", e)
          /\ UNCHANGED <<rl, wire, rdl>>
     \/ /\ ConnCanRead
        /\ \E nn \in ReadSizes(rl.cap - rl.n) :
             /\ wire' = SubSeq(wire, nn + 1, Len(wire))
             /\ rl' = [rl EXCEPT !.buf = @ \o SubSeq(wire, 1, nn), !.n = @ + nn,
                                 !.index = 0]
             /\ Goto("read", IF rl.n + nn < Size THEN pc["read"] ELSE "rl_parse")
        /\ rdl' = "future"
        /\ UNCHANGED <<wg, tally, stack, perr>>
  /\ UNCHANGED <<closed, error, connClosed, wdl, faultR, faultW, sock, writerVars, chanVars,
                 queueVars, streamVars, panicked, wpkt, ret, userVars, pings, sent, hist>>

\* one SetReadDeadline and Read of the loop at lines 617-637, into
\* buf[index+n:], the tail of the last read being at buf[:index]
RL_HeaderTail ==
  /\ pc["read"] = "rl_hdr3"
  /\ \/ \E e \in ConnReadErrs :
          /\ LoopFail("read", e)
          /\ UNCHANGED <<rl, wire, rdl>>
     \/ /\ ConnCanRead
        /\ \E nn \in ReadSizes(rl.cap - (rl.index + rl.n)) :
             /\ wire' = SubSeq(wire, nn + 1, Len(wire))
             /\ IF rl.n + nn < rl.min
                THEN /\ rl' = [rl EXCEPT !.buf = @ \o SubSeq(wire, 1, nn), !.n = @ + nn]
                     /\ Goto("read", "rl_hdr3")
                ELSE /\ rl' = [rl EXCEPT !.buf = @ \o SubSeq(wire, 1, nn),
                                         !.n = rl.n + nn + rl.index, !.index = 0]
                     /\ Goto("read", "rl_parse")
        /\ rdl' = "future"
        /\ UNCHANGED <<wg, tally, stack, perr>>
  /\ UNCHANGED <<closed, error, connClosed, wdl, faultR, faultW, sock, writerVars, chanVars,
                 queueVars, streamVars, panicked, wpkt, ret, userVars, pings, sent, hist>>

\* one SetReadDeadline and Read of the payload loop at lines 510-530, into
\* buf[n:]; when min bytes are there, buf[:min] ends the content
RL_Payload ==
  /\ pc["read"] = "rl_pay"
  /\ \/ \E e \in ConnReadErrs :
          /\ LoopFail("read", e)
          /\ UNCHANGED <<rl, wire, rdl, hist>>
     \/ /\ ConnCanRead
        /\ \E nn \in ReadSizes(rl.cap - rl.n) :
             /\ wire' = SubSeq(wire, nn + 1, Len(wire))
             /\ IF rl.n + nn < rl.min
                THEN /\ rl' = [rl EXCEPT !.buf = @ \o SubSeq(wire, 1, nn), !.n = @ + nn]
                     /\ Goto("read", "rl_pay")
                ELSE /\ rl' = [rl EXCEPT !.buf = @ \o SubSeq(wire, 1, nn),
                                         !.n = @ + nn,
                                         !.p.content = @ \o SubSeq(rl.buf \o SubSeq(wire, 1, nn),
                                                                   1, rl.min),
                                         !.index = rl.min]
                     /\ Goto("read", "rl_route")
        /\ rdl' = "future"
        /\ hist' = [hist EXCEPT !.closedAt = closed]
        /\ UNCHANGED <<wg, tally, stack, perr>>
  /\ UNCHANGED <<closed, error, connClosed, wdl, faultR, faultW, sock, writerVars, chanVars,
                 queueVars, streamVars, panicked, wpkt, ret, userVars, pings, sent>>

\* lines 472-534: the header at index, the dispatch on its operation, the
\* payload bytes already buffered
RL_Parse ==
  /\ pc["read"] = "rl_parse"
  /\ LET r == ParseHeader(rl) IN
     IF r.p.op = PING
     THEN /\ rl' = r
          /\ wpkt' = [wpkt EXCEPT !["read"] = PONGPacket]
          /\ Call("read", "wp_check", "rl_pongRet")
     ELSE IF r.p.op = PONG
     THEN /\ rl' = Compact(r).rl
          /\ Goto("read", Compact(r).pc)
          /\ UNCHANGED <<wpkt, stack>>
     ELSE LET q == IF r.p.op = STREAM
                   THEN [r EXCEPT !.isStream = TRUE, !.nsh = handler,
                                  !.stream = StreamLookup(handler, r.p.cl, r.p.id)]
                   ELSE r
          IN /\ rl' = PayloadStep(q).rl
             /\ Goto("read", PayloadStep(q).pc)
             /\ UNCHANGED <<wpkt, stack>>
  /\ hist' = [hist EXCEPT
       !.regAt = IF ParseHeader(rl).p.op = STREAM /\ ParseHeader(rl).p.id \in DOMAIN streams
                 THEN streams[ParseHeader(rl).p.id] ELSE 0,
       !.handlerAt = handler,
       !.closedAt = closed,
       \* line 472, packet.Get(); line 490, packet.Put(p) of a PONG
       !.pool = Append(@, [released |-> IF ParseHeader(rl).p.op = PONG THEN 1 ELSE 0,
                           queued |-> 0, m |-> ParseHeader(rl).p])]
  /\ UNCHANGED <<closed, error, connVars, writerVars, chanVars, queueVars, streamVars,
                 wg, panicked, perr, ret, userVars, pings, sent, tally>>

\* a faulty release: the packet goes back to the pool twice
PoolPutTwice == hist' = [hist EXCEPT !.pool[Len(hist.pool)].released = @ + 2]

\* packet.Put(p) of the packet the read loop holds
PoolPut == hist' = [hist EXCEPT !.pool[Len(hist.pool)].released = @ + 1]

\* lines 481-487: the result of writePacket(PONGPacket)
RL_PongRet ==
  /\ pc["read"] = "rl_pongRet"
  /\ IF ret["read"].err = Nil
     THEN /\ rl' = Compact(rl).rl
          /\ Goto("read", Compact(rl).pc)
          /\ PoolPut
          /\ UNCHANGED <<wg, tally, stack, perr>>
     ELSE LoopFail("read", ret["read"].err) /\ rl' = rl /\ hist' = hist
  /\ UNCHANGED <<closed, error, connVars, writerVars, chanVars, queueVars, streamVars,
                 panicked, wpkt, ret, userVars, pings, sent>>

\* a faulty push: the packet goes to the front of the queue
PushIncomingFront(p) ==
  /\ incoming' = <<p>> \o incoming
  /\ hist' = [hist EXCEPT !.pushed = Append(@, p),
                           !.pool[Len(hist.pool)].queued = @ + 1]

\* queue.Circular.Push of the incoming queue, by the read loop
PushIncoming(p) ==
  /\ incoming' = Append(incoming, p)
  /\ hist' = [hist EXCEPT !.pushed = Append(@, p),
                           !.pool[Len(hist.pool)].queued = @ + 1]

\* Stream.queue.Push of stream object i
PushStream(i, p) ==
  /\ streamObjs' = [streamObjs EXCEPT ![i].queue = Append(@, p)]
  /\ hist' = [hist EXCEPT !.spushed = Append(@, [obj |-> i, pkt |-> p]),
                           !.pool[Len(hist.pool)].queued = @ + 1]

\* a faulty routing: under a handler every stream packet with content
\* creates a stream, registered or not
RouteOfAlwaysCreate(r) ==
  IF ~r.isStream THEN "incoming"
  ELSE IF r.p.cl = 0 THEN "sentinel"
  ELSE IF ~r.nsh THEN "discard"
  ELSE "create"

\* a faulty routing: a STREAM packet with payload is not discarded when the
\* handler is nil
RouteOfNoDiscard(r) ==
  IF ~r.isStream THEN "incoming"
  ELSE IF r.p.cl = 0 THEN "sentinel"
  ELSE IF r.stream = 0 THEN "create"
  ELSE "push"

\* the branch of lines 535-571 a parsed packet takes, from the loop's locals
\* isStream, newStreamHandler and stream
RouteOf(r) ==
  IF ~r.isStream THEN "incoming"
  ELSE IF r.p.cl = 0 THEN "sentinel"
  ELSE IF ~r.nsh THEN "discard"
  ELSE IF r.stream = 0 THEN "create"
  ELSE "push"

\* lines 535-571: the packet goes to the incoming queue, to its stream, or
\* back to the pool
RL_Route ==
  /\ pc["read"] = "rl_route"
  /\ IF RouteOf(rl) = "incoming"
     THEN \* lines 536-542
          IF incomingClosed
          THEN /\ LoopFail("read", "QueueClosed")
               /\ UNCHANGED <<rl, queueVars, streamVars, hist>>
          ELSE /\ PushIncoming(rl.p)
               /\ rl' = AfterPacket(rl).rl
               /\ Goto("read", AfterPacket(rl).pc)
               /\ UNCHANGED <<incomingClosed, stale, streamVars, wg, tally, stack, perr>>
     ELSE IF RouteOf(rl) = "sentinel"
     THEN \* lines 544-549: the close sentinel
          /\ IF rl.stream # 0
             THEN /\ streamObjs' = StreamClose(streamObjs, rl.stream)
                  /\ streams' = Remove(rl.p.id)
             ELSE UNCHANGED <<streamObjs, streams>>
          /\ PoolPut
          /\ rl' = AfterPacket(rl).rl
          /\ Goto("read", AfterPacket(rl).pc)
          /\ UNCHANGED <<queueVars, handler, spawned, wg, tally, stack, perr>>
     ELSE IF RouteOf(rl) = "discard"
     THEN \* lines 551-553: no handler, the packet is discarded
          /\ PoolPut
          /\ rl' = AfterPacket(rl).rl
          /\ Goto("read", AfterPacket(rl).pc)
          /\ UNCHANGED <<queueVars, streamVars, wg, tally, stack, perr>>
     ELSE IF RouteOf(rl) = "create"
     THEN \* lines 555-561: c.streams.Create and go newStreamHandler(stream)
          /\ streams' = Create(rl.p.id)
          /\ streamObjs' = Append(streamObjs, NewStreamObj(rl.p.id))
          /\ spawned' = Append(spawned, Len(streamObjs) + 1)
          /\ rl' = [rl EXCEPT !.stream = Len(streamObjs) + 1]
          /\ Goto("read", "rl_streamPush")
          /\ UNCHANGED <<queueVars, handler, hist, wg, tally, stack, perr>>
     ELSE \* lines 562-568, the stream was there
          IF streamObjs[rl.stream].closed
          THEN /\ LoopFail("read", "QueueClosed")
               /\ UNCHANGED <<rl, queueVars, streamVars, hist>>
          ELSE /\ PushStream(rl.stream, rl.p)
               /\ rl' = AfterPacket(rl).rl
               /\ Goto("read", AfterPacket(rl).pc)
               /\ UNCHANGED <<queueVars, streams, handler, spawned, wg, tally, stack, perr>>
  /\ UNCHANGED <<closed, error, connVars, writerVars, chanVars, panicked, wpkt, ret,
                 userVars, pings, sent>>

\* lines 562-568, after the stream was created
RL_StreamPush ==
  /\ pc["read"] = "rl_streamPush"
  /\ IF streamObjs[rl.stream].closed
     THEN /\ LoopFail("read", "QueueClosed")
          /\ UNCHANGED <<rl, streamVars, hist>>
     ELSE /\ PushStream(rl.stream, rl.p)
          /\ rl' = AfterPacket(rl).rl
          /\ Goto("read", AfterPacket(rl).pc)
          /\ UNCHANGED <<streams, handler, spawned, wg, tally, stack, perr>>
  /\ UNCHANGED <<closed, error, connVars, writerVars, chanVars, queueVars, panicked, wpkt,
                 ret, userVars, pings, sent>>

\* ------------------------------------------------------------ user calls
Begin(u, op, pkt, id) ==
  /\ pc[u] = "idle"
  /\ calls[u] > 0
  /\ op \in scn.ops[u]
  /\ calls' = [calls EXCEPT ![u] = @ - 1]
  /\ ucall' = [ucall EXCEPT ![u] = [op |-> op, pkt |-> pkt, id |-> id]]
  /\ UNCHANGED <<scn, md>>

\* a faulty WritePacket: operation 9 is let through
U_WritePacketBelow9(u) ==
  \E pkt \in scn.pkts :
    /\ Begin(u, "WritePacket", pkt, 0)
    /\ IF pkt.op < RESERVED9
       THEN /\ ret' = [ret EXCEPT ![u] = Result("InvalidOperation", NoPacket, 0)]
            /\ UNCHANGED <<pc, stack, wpkt>>
       ELSE /\ wpkt' = [wpkt EXCEPT ![u] = pkt]
            /\ Call(u, "wp_check", "idle")
            /\ ret' = ret
    /\ UNCHANGED <<closed, error, connVars, writerVars, chanVars, queueVars, streamVars,
                   wg, panicked, perr, rl, pings, sent, hist, tally>>

\* WritePacket (lines 178-183): a reserved operation is refused, the rest is
\* writePacket's
U_WritePacket(u) ==
  \E pkt \in scn.pkts :
    /\ Begin(u, "WritePacket", pkt, 0)
    /\ IF pkt.op <= RESERVED9
       THEN /\ ret' = [ret EXCEPT ![u] = Result("InvalidOperation", NoPacket, 0)]
            /\ UNCHANGED <<pc, stack, wpkt>>
       ELSE /\ wpkt' = [wpkt EXCEPT ![u] = pkt]
            /\ Call(u, "wp_check", "idle")
            /\ ret' = ret
    /\ UNCHANGED <<closed, error, connVars, writerVars, chanVars, queueVars, streamVars,
                   wg, panicked, perr, rl, pings, sent, hist, tally>>

\* Packets.Poll of the stale buffer, for a ReadPacket of a closed endpoint
\* (lines 189-193 and 199-203)
PollStale(u) ==
  IF stale # <<>>
  THEN /\ stale' = Tail(stale)
       /\ ReturnPacket(u, Head(stale))
       /\ hist' = [hist EXCEPT !.got = Append(@, Head(stale)), !.staleGot = @ + 1]
  ELSE /\ stale' = stale
       /\ Return(u, "ConnectionClosed")
       /\ hist' = [hist EXCEPT !.eof = TRUE]

\* ReadPacket, lines 188-194: the closed check before the pop
U_ReadPacket(u) ==
  /\ Begin(u, "ReadPacket", NoPacket, 0)
  /\ Call(u, "rp_check", "idle")
  /\ UNCHANGED <<closed, error, connVars, writerVars, chanVars, queueVars, streamVars,
                 wg, panicked, perr, wpkt, ret, rl, pings, sent, hist, tally>>

RP_Check(u) ==
  /\ pc[u] = "rp_check"
  /\ IF closed
     THEN PollStale(u)
     ELSE Goto(u, "rp_pop") /\ UNCHANGED <<stack, ret, stale, hist>>
  /\ UNCHANGED <<closed, error, connVars, writerVars, chanVars, incoming, incomingClosed,
                 streamVars, wg, panicked, perr, wpkt, rl, userVars, pings, sent, tally>>

\* line 196, c.incoming.Pop(): blocks while the queue is open and empty, fails
\* once it is closed
RP_Pop(u) ==
  /\ pc[u] = "rp_pop"
  /\ IF incomingClosed
     THEN Goto(u, "rp_err") /\ UNCHANGED <<stack, ret, incoming, hist>>
     ELSE /\ incoming # <<>>
          /\ incoming' = Tail(incoming)
          /\ ReturnPacket(u, Head(incoming))
          /\ hist' = [hist EXCEPT !.got = Append(@, Head(incoming)),
                                  !.early = @ \/ ~closed]
  /\ UNCHANGED <<closed, error, connVars, writerVars, chanVars, incomingClosed, stale,
                 streamVars, wg, panicked, perr, wpkt, rl, userVars, pings, sent, tally>>

\* lines 197-207: the pop failed
RP_Err(u) ==
  /\ pc[u] = "rp_err"
  /\ IF closed
     THEN PollStale(u)
     ELSE Return(u, "QueueClosed") /\ UNCHANGED <<stale, hist>>
  /\ UNCHANGED <<closed, error, connVars, writerVars, chanVars, incoming, incomingClosed,
                 streamVars, wg, panicked, perr, wpkt, rl, userVars, pings, sent, tally>>

\* Close, lines 270-277
U_Close(u) ==
  /\ Begin(u, "Close", NoPacket, 0)
  /\ Call(u, "c_cas", "cl_ret")
  /\ UNCHANGED <<closed, error, connVars, writerVars, chanVars, queueVars, streamVars,
                 wg, panicked, perr, wpkt, ret, rl, pings, sent, hist, tally>>

\* lines 272-276: ConnectionClosed becomes nil, otherwise c.conn.Close()
CL_Ret(u) ==
  /\ pc[u] = "cl_ret"
  /\ connClosed' = IF ret[u].err = "ConnectionClosed" THEN connClosed ELSE TRUE
  /\ ret' = [ret EXCEPT ![u] = Result(Nil, NoPacket, 0)]
  /\ Goto(u, "idle")
  /\ hist' = [hist EXCEPT !.closeReturned = @ \cup {u}]
  /\ UNCHANGED <<closed, error, rdl, wdl, faultR, faultW, wire, sock, writerVars, chanVars,
                 queueVars, streamVars, wg, panicked, stack, perr, wpkt, rl, userVars,
                 pings, sent, tally>>

\* Raw, lines 244-247
U_Raw(u) ==
  /\ Begin(u, "Raw", NoPacket, 0)
  /\ Call(u, "c_cas", "raw_ret")
  /\ UNCHANGED <<closed, error, connVars, writerVars, chanVars, queueVars, streamVars,
                 wg, panicked, perr, wpkt, ret, rl, pings, sent, hist, tally>>

\* line 246: the result of c.close() is dropped, the socket is returned
RAW_Ret(u) ==
  /\ pc[u] = "raw_ret"
  /\ ret' = [ret EXCEPT ![u] = Result(Nil, NoPacket, 0)]
  /\ Goto(u, "idle")
  /\ hist' = [hist EXCEPT !.closeReturned = @ \cup {u}]
  /\ UNCHANGED <<closed, error, connVars, writerVars, chanVars, queueVars, streamVars,
                 wg, panicked, stack, perr, wpkt, rl, userVars, pings, sent, tally>>

\* Flush, lines 213-218
U_Flush(u) ==
  /\ Begin(u, "Flush", NoPacket, 0)
  /\ Call(u, "f_closed", "fl_uret")
  /\ UNCHANGED <<closed, error, connVars, writerVars, chanVars, queueVars, streamVars,
                 wg, panicked, perr, wpkt, ret, rl, pings, sent, hist, tally>>

FL_URet(u) ==
  /\ pc[u] = "fl_uret"
  /\ IF ret[u].err = Nil
     THEN Goto(u, "idle") /\ UNCHANGED <<stack, perr>>
     ELSE CallCloseWithError(u, ret[u].err, "idle")
  /\ UNCHANGED <<closed, error, connVars, writerVars, chanVars, queueVars, streamVars,
                 wg, panicked, wpkt, ret, rl, userVars, pings, sent, hist, tally>>

\* NewStream, lines 250-254
U_NewStream(u) ==
  \E id \in scn.ids :
    /\ Begin(u, "NewStream", NoPacket, id)
    /\ streams' = CreateWithCheckOfExistence(id)
    /\ streamObjs' = IF Get(id) # 0 THEN streamObjs
                     ELSE Append(streamObjs, NewStreamObj(id))
    /\ ret' = [ret EXCEPT ![u] = Result(Nil, NoPacket,
                                         IF Get(id) # 0 THEN Get(id)
                                         ELSE Len(streamObjs) + 1)]
    /\ UNCHANGED <<closed, error, connVars, writerVars, chanVars, queueVars, handler,
                   spawned, wg, panicked, pc, stack, perr, wpkt, rl, pings, sent, hist,
                   tally>>

\* SetNewStreamHandler, lines 263-267
U_SetNewStreamHandler(u) ==
  \E h \in BOOLEAN :
    /\ Begin(u, "SetNewStreamHandler", NoPacket, 0)
    /\ handler' = h
    /\ UNCHANGED <<closed, error, connVars, writerVars, chanVars, queueVars, streams,
                   streamObjs, spawned, wg, panicked, procVars, rl, pings, sent, hist,
                   tally>>

\* ------------------------------------------------------------ environment
\* the socket breaks: its reads, its writes or both fail from now on
SockFault ==
  /\ scn.faults /\ ~panicked
  /\ ~faultR /\ ~faultW
  /\ \E k \in {"r", "w", "rw"} :
       /\ faultR' = (k \in {"r", "rw"})
       /\ faultW' = (k \in {"w", "rw"})
  /\ UNCHANGED <<closed, error, connClosed, rdl, wdl, wire, sock, writerVars, chanVars,
                 queueVars, streamVars, wg, panicked, procVars, rl, userVars, pings, sent,
                 hist, tally>>

\* ------------------------------------------------------------ scenarios
\* A scenario fixes what the peer sends and what the user tasks may do: the
\* frames on the wire, whether NewAsync got a stream handler, the ping ticks,
\* each user task's calls, whether the socket may break.
Payload(cl, k) == [i \in 1..cl |-> 16 * k + i]
FrameIds == {1, 258}
PayloadLens == {0, 1, DefaultBufferSize + 1}
NoOps == [u \in Users |-> {}]
NoCalls == [u \in Users |-> 0]

Scenario(frames, h, np, ops, ncalls, pkts, ids, faults, split) ==
  [frames |-> frames, handler |-> h, pings |-> np, ops |-> ops, calls |-> ncalls,
   pkts |-> pkts, ids |-> ids, faults |-> faults, split |-> split]

\* the sequences of 1..MaxFrames frames, frame k being any of Choices(k)
RECURSIVE FrameSeqs(_, _)
FrameSeqs(k, last) ==
  IF k > last THEN {<<>>}
  ELSE {<<>>} \cup UNION {{<<f>> \o t : t \in FrameSeqs(k + 1, last)} : f \in
          {Packet(id, UserOp, cl, Payload(cl, k)) : id \in FrameIds, cl \in PayloadLens}}

\* framing: user frames of every length cut into reads of every size
FramingScenarios ==
  {Scenario(fs, FALSE, 0, [NoOps EXCEPT !["u1"] = {"ReadPacket"}],
            [NoCalls EXCEPT !["u1"] = MaxCalls], {}, {}, FALSE, TRUE) :
     fs \in FrameSeqs(1, MaxFrames) \ {<<>>}}

\* streams: STREAM frames with and without payload among user frames, with
\* and without a handler, a user task opening streams and changing the handler
StreamFrames(k) ==
  {Packet(id, STREAM, cl, Payload(cl, k)) : id \in {1, 2}, cl \in {0, 1}}
    \cup {Packet(1, UserOp, 1, Payload(1, k))}

StreamScenarios ==
  {Scenario(<<f1, f2>>, h, 0,
            [u \in Users |-> IF u = "u1" THEN {"NewStream", "SetNewStreamHandler"}
                             ELSE {"ReadPacket", "Close"}],
            [u \in Users |-> IF u = "u1" THEN 1 ELSE MaxCalls], {}, {1, 2}, FALSE, FALSE) :
     f1 \in StreamFrames(1), f2 \in StreamFrames(2), h \in BOOLEAN}

\* the packets the user tasks write: a user packet with content, one without,
\* one with a reserved operation, one whose content length is wrong
UserPackets ==
  {Packet(1, UserOp, 1, <<7>>), Packet(2, UserOp, 0, <<>>),
   Packet(3, RESERVED9, 1, <<7>>), Packet(4, UserOp, 2, <<7>>)}

\* writers: two user tasks, the ping loop and the PONG reply write together
WriterScenarios ==
  {Scenario(fs, FALSE, MaxPings,
            [u \in Users |-> IF u = "u1" THEN {"WritePacket"} ELSE {"Flush"}],
            [u \in Users |-> 1], UserPackets, {}, FALSE, FALSE) :
     fs \in {<<>>, <<PINGPacket>>}}

\* graceful close: user tasks close and read while a packet arrives
CloseScenarios ==
  {Scenario(fs, FALSE, 0,
            [u \in Users |-> IF u = "u1" THEN {"Close", "ReadPacket"} ELSE {"Close", "Raw"}],
            [u \in Users |-> IF u = "u1" THEN MaxCalls ELSE 1], {}, {}, FALSE, FALSE) :
     fs \in {<<Packet(1, UserOp, 1, Payload(1, 1))>>,
             <<Packet(1, UserOp, 1, Payload(1, 1)), Packet(1, UserOp, 1, Payload(1, 2))>>}}

\* error close: the socket breaks while the loops run
FaultScenarios ==
  {Scenario(fs, FALSE, MaxPings,
            [u \in Users |-> IF u = "u1" THEN {"Close"} ELSE {}],
            [u \in Users |-> 1], {}, {}, TRUE, FALSE) :
     fs \in {<<Packet(1, UserOp, 1, Payload(1, 1))>>, <<PINGPacket>>}}

\* the loops alone: no task calls in, the peer is silent or sends a PING, and
\* the socket may break
LoopScenarios ==
  {Scenario(fs, FALSE, MaxPings, NoOps, NoCalls, {}, {}, TRUE, FALSE) :
     fs \in {<<>>, <<PINGPacket>>}}

\* control frames that carry a payload, each followed by a user frame
ControlScenarios ==
  {Scenario(<<Packet(0, op, 1, Payload(1, 1)), Packet(1, 256, 0, <<>>)>>, FALSE, 0,
            [NoOps EXCEPT !["u1"] = {"ReadPacket"}],
            [NoCalls EXCEPT !["u1"] = 1], {}, {}, FALSE, FALSE) :
     op \in {PING, PONG}}

\* a user task writes while the ping loop pings, over a socket that may
\* break; nobody calls Flush
WriteScenarios ==
  {Scenario(<<>>, FALSE, MaxPings,
            [NoOps EXCEPT !["u1"] = {"WritePacket"}], [NoCalls EXCEPT !["u1"] = 1],
            {Packet(1, UserOp, 1, <<7>>), Packet(2, UserOp, 0, <<>>)}, {}, TRUE, FALSE)}

\* a write against a close
RaceScenarios ==
  {Scenario(<<>>, FALSE, MaxPings,
            [u \in Users |-> IF u = "u1" THEN {"WritePacket"} ELSE {"Close"}],
            [u \in Users |-> 1], UserPackets, {}, FALSE, FALSE)}

Scenarios == FramingScenarios \cup StreamScenarios \cup WriterScenarios
               \cup CloseScenarios \cup FaultScenarios \cup RaceScenarios
               \cup ControlScenarios

\* no call into the metadata package
NoCall == [at |-> "none", in |-> NoMetadata, keep |-> 0, buf |-> <<>>,
           out |-> NoMetadata, err |-> Nil]

InitOf(sc) ==
  /\ closed = FALSE
  /\ error = Nil
  /\ connClosed = FALSE
  /\ rdl = "none"
  /\ wdl = "none"
  /\ faultR = FALSE
  /\ faultW = FALSE
  /\ wire = Concat([k \in DOMAIN sc.frames |-> Frame(sc.frames[k])])
  /\ sock = <<>>
  /\ wbuf = <<>>
  /\ werr = Nil
  /\ flushCh = 0
  /\ flushChClosed = FALSE
  /\ closeChClosed = FALSE
  /\ incoming = <<>>
  /\ incomingClosed = FALSE
  /\ stale = <<>>
  /\ streams = <<>>
  /\ streamObjs = <<>>
  /\ handler = sc.handler
  /\ spawned = <<>>
  /\ wg = 3
  /\ panicked = FALSE
  /\ pc = [p \in Procs |-> IF p = "flush" THEN "fl_recv"
                           ELSE IF p = "read" THEN "rl_hdr1"
                           ELSE IF p = "ping" THEN "pl_select"
                           ELSE "idle"]
  /\ stack = [p \in Procs |-> <<>>]
  /\ perr = [p \in Procs |-> Nil]
  /\ wpkt = [p \in Procs |-> NoPacket]
  /\ ret = [p \in Procs |-> Result(Nil, NoPacket, 0)]
  /\ rl = [buf |-> <<>>, cap |-> DefaultBufferSize, n |-> 0, index |-> 0, min |-> 0,
           p |-> NoPacket, isStream |-> FALSE, stream |-> 0, nsh |-> FALSE]
  /\ calls = sc.calls
  /\ pings = sc.pings
  /\ ucall = [u \in Users |-> [op |-> Nil, pkt |-> NoPacket, id |-> 0]]
  /\ scn = [ops |-> sc.ops, pkts |-> sc.pkts, ids |-> sc.ids, faults |-> sc.faults,
            split |-> sc.split]
  /\ sent = sc.frames
  /\ wlog = <<>>
  /\ hist = [pushed |-> <<>>, spushed |-> <<>>, got |-> <<>>, eof |-> FALSE,
             early |-> FALSE, closer |-> Nil, cause |-> Nil, nAtClose |-> 0,
             closeReturned |-> {}, after |-> {}, regAt |-> 0, handlerAt |-> FALSE, closedAt |-> FALSE, staleGot |-> 0,
             pool |-> <<>>]
  /\ tally = [done |-> [l \in Loops |-> 0], incomingClose |-> 0, closeCh |-> 0,
              flushCh |-> 0, drain |-> 0, closeAll |-> 0, stores |-> 0, closeNil |-> 0]

Init == md = NoCall /\ \E sc \in Scenarios : InitOf(sc)

Routine(p) ==
  \/ WP_Check(p) \/ WP_Deadline(p) \/ WP_Header(p) \/ WP_Content(p) \/ WP_Err(p)
  \/ WP_Len(p) \/ WP_Send(p)
  \/ F_Closed(p) \/ F_Buffered(p) \/ F_Deadline(p) \/ F_Flush(p)
  \/ C_Cas(p) \/ C_Incoming(p) \/ C_CloseCh(p) \/ C_FlushCh(p) \/ C_Deadline(p)
  \/ C_Wait(p) \/ C_Deadline2(p) \/ C_Drain(p) \/ C_CloseAll(p)
  \/ C_Final(p) \/ C_FinalDeadline(p) \/ C_FinalFlush(p)
  \/ CWE_Store(p) \/ CWE_ConnClose(p)

LoopStep ==
  \/ FL_Recv \/ FL_Ret \/ PL_Closed \/ PL_Tick \/ PL_Ret
  \/ RL_Header \/ RL_HeaderTail \/ RL_Payload \/ RL_Parse \/ RL_PongRet
  \/ RL_Route \/ RL_StreamPush

UserStep(u) ==
  \/ U_WritePacket(u) \/ U_ReadPacket(u) \/ RP_Check(u) \/ RP_Pop(u) \/ RP_Err(u)
  \/ U_Close(u) \/ CL_Ret(u) \/ U_Raw(u) \/ RAW_Ret(u) \/ U_Flush(u) \/ FL_URet(u)
  \/ U_NewStream(u) \/ U_SetNewStreamHandler(u)

Next ==
  \/ \E p \in Procs : Routine(p)
  \/ LoopStep
  \/ \E u \in Users : UserStep(u)
  \/ SockFault

Spec == Init /\ [][Next]_vars

\* The three loops on their own (NewAsync, lines 101-104, and nothing
\* else): the steps of Next that the frames and tickers of LoopScenarios can
\* enable.
LoopInit == md = NoCall /\ \E sc \in LoopScenarios : InitOf(sc)

LoopRoutine(l) ==
  \/ WP_Check(l) \/ WP_Deadline(l) \/ WP_Header(l) \/ WP_Err(l) \/ WP_Len(l) \/ WP_Send(l)
  \/ F_Closed(l) \/ F_Buffered(l) \/ F_Deadline(l) \/ F_Flush(l)
  \/ C_Cas(l) \/ C_Incoming(l) \/ C_CloseCh(l) \/ C_FlushCh(l) \/ C_Deadline(l)
  \/ C_Wait(l) \/ C_Deadline2(l) \/ C_Drain(l) \/ C_CloseAll(l)
  \/ C_Final(l) \/ C_FinalDeadline(l) \/ C_FinalFlush(l)
  \/ CWE_Store(l) \/ CWE_ConnClose(l)

GoroutineStep ==
  \/ \E l \in Loops : LoopRoutine(l)
  \/ FL_Recv \/ FL_Ret \/ PL_Closed \/ PL_Tick \/ PL_Ret
  \/ RL_Header \/ RL_Parse \/ RL_PongRet

LoopNext == GoroutineStep \/ SockFault

\* the runtime keeps scheduling the goroutines: a step of theirs that stays
\* possible is taken in the end
FairSpec == LoopInit /\ [][LoopNext]_vars /\ WF_vars(GoroutineStep)

\* The writers and the flush loop: user tasks in WritePacket, the ping loop,
\* the flush loop, and the read loop as far as a silent peer lets it go.
WriteInit == md = NoCall /\ \E sc \in WriteScenarios : InitOf(sc)

WriterStep ==
  \/ \E p \in Procs : Routine(p)
  \/ FL_Recv \/ FL_Ret \/ PL_Closed \/ PL_Tick \/ PL_Ret
  \/ RL_Header

WriteNext ==
  \/ WriterStep
  \/ \E u \in Users : U_WritePacket(u)
  \/ SockFault

\* the goroutines that are in a routine, and the loops, keep being scheduled
WriteFairSpec == WriteInit /\ [][WriteNext]_vars /\ WF_vars(WriterStep)

\* ------------------------------------------------------------ properties
IsPrefix(a, b) == Len(a) <= Len(b) /\ a = SubSeq(b, 1, Len(a))

ReadLabels == {"rl_hdr1", "rl_hdr2", "rl_hdr3", "rl_pay"}

IOErrors == {"eIO", "eTimeout", "eNetClosed"}

\* C1: whatever the interleaving of the writePacket calls of the user tasks,
\* the ping loop and the read loop, every payload appended to the buffered
\* writer comes directly after the header of its own packet: no bytes of
\* another packet lie between the 8 header bytes and the content_length
\* payload bytes of a frame.
C1_FramesNeverInterleave ==
  \A i \in DOMAIN wlog :
    wlog[i].part = "content" =>
      /\ i > 1
      /\ wlog[i - 1] = [w |-> wlog[i].w, part |-> "header", cl |-> wlog[i].cl]

\* C2: for frames with user operations, under every partition of the byte
\* stream into socket reads, the packets pushed to the incoming queue are the
\* encoded packets in order, field by field; once the stream is read to its
\* end and the loop waits for more, all of them have been pushed.
C2_SplitResilience ==
  (\A i \in DOMAIN sent : sent[i].op > STREAM) =>
    /\ IsPrefix(hist.pushed, sent)
    /\ (wire = <<>> /\ pc["read"] \in ReadLabels) => hist.pushed = sent

\* two frames, the second with a payload longer than the buffer, read in
\* pieces of every size, and both pushed
C2_Witness ==
  /\ scn.split
  /\ Len(sent) = MaxFrames
  /\ \A i \in DOMAIN sent : sent[i].op > STREAM
  /\ rl.cap > DefaultBufferSize
  /\ wire = <<>>
  /\ hist.pushed = sent

\* C3: after a close() that found N packets pushed and none read, a task
\* whose Close has returned reads exactly those N packets before
\* ReadPacket returns ConnectionClosed.
C3_StaleReads ==
  \A u \in Users :
    ( /\ u \in hist.closeReturned
      /\ pc[u] = "idle"
      /\ ucall[u].op = "ReadPacket"
      /\ ret[u].err = "ConnectionClosed"
      /\ ~hist.early )
    => hist.got = SubSeq(hist.pushed, 1, hist.nAtClose)

\* C4: once a loop has started an error-close on an I/O failure with cause e
\* (it won the CompareAndSwap of closed), the error-close runs to its end
\* in every run that no panic cuts short: closed is true, the three loops
\* have returned and e is in the error slot.
C4_ErrorCloseCompletes ==
  (hist.closer \in Loops /\ hist.cause \in IOErrors)
    ~> \/ closed /\ (\A l \in Loops : pc[l] = "done") /\ error = hist.cause
       \/ panicked

TeardownSteps == {"incomingClose", "closeCh", "flushCh", "drain", "closeAll"}

\* C5: with Close called from several tasks at once, each step of the
\* teardown (closing the incoming queue, closeCh and flushCh, the drain into
\* the stale buffer, closing the streams) runs at most once and, when the
\* close() that won has returned, exactly once; each loop signals the wait
\* group at most once, and exactly once by then; every Close that has
\* returned gave no error.
C5_ConcurrentClose ==
  /\ \A k \in TeardownSteps : tally[k] <= 1
  /\ \A l \in Loops : tally.done[l] <= 1
  /\ tally.closeNil <= 1
  /\ tally.closeNil = 1 =>
       /\ \A k \in TeardownSteps : tally[k] = 1
       /\ \A l \in Loops : tally.done[l] = 1
       /\ wg = 0
  /\ \A u \in Users :
       (pc[u] = "idle" /\ ucall[u].op = "Close") => ret[u].err = Nil

\* the close() of one task has finished the teardown and is about to return
\* while the Close of the other task, which lost, has already returned
C5_Witness ==
  \E u, v \in Users :
    /\ u # v
    /\ hist.closer = v /\ hist.cause = Nil
    /\ ucall[v].op = "Close" /\ pc[v] = "cl_ret"
    /\ tally.closeNil = 1
    /\ ucall[u].op = "Close" /\ pc[u] = "idle" /\ u \in hist.closeReturned

\* C6: once a cause is stored in the error slot, no step changes it: not a
\* later closeWithError with another cause, not a later Close.
C6_FirstCauseWins == [][error # Nil => error' = error]_vars

\* after the cause was stored a loop went through closeWithError with another
\* I/O cause and a task through Close, and both have returned
C6_Witness ==
  /\ error \in IOErrors
  /\ \E l \in Loops \cap hist.after : pc[l] = "done" /\ perr[l] \in IOErrors \ {error}
  /\ \E u \in Users \cap hist.after : ucall[u].op = "Close" /\ pc[u] = "idle"

\* what WritePacket and writePacket may change for the socket and the
\* connection
SocketState == <<wdl, rdl, connClosed, sock, wbuf, werr, wlog, flushCh>>

ConnectionState ==
  <<closed, error, wbuf, werr, wlog, flushCh, flushChClosed, closeChClosed,
    incoming, incomingClosed, stale, streams, streamObjs, handler, spawned>>

\* C7: a WritePacket with an operation in 0..9 returns InvalidOperation in
\* the very step of the call, and that step sets no write deadline, appends
\* nothing to the write buffer and sends no flush token.
C7_ReservedOperation ==
  [][\A u \in Users :
       ( /\ calls'[u] < calls[u]
         /\ ucall'[u].op = "WritePacket"
         /\ ucall'[u].pkt.op <= RESERVED9 )
       => /\ pc'[u] = "idle"
          /\ ret'[u].err = "InvalidOperation"
          /\ SocketState' = SocketState]_vars

\* a reserved operation was refused on an open endpoint whose write buffer
\* holds bytes
C7_Witness ==
  \E u \in Users :
    /\ pc[u] = "idle"
    /\ ucall[u].op = "WritePacket"
    /\ ucall[u].pkt.op <= RESERVED9
    /\ ret[u].err = "InvalidOperation"
    /\ Len(wbuf) > 0

\* C8: a WritePacket with an operation >= 10 whose content_length is not the
\* length of its content returns InvalidContentLength at the first check of
\* writePacket, and neither step of the call changes closed, error, the
\* write buffer, the flush signal, the queues or the stream registry.
C8_InvalidContentLength ==
  [][\A u \in Users :
       /\ ( /\ calls'[u] < calls[u]
            /\ ucall'[u].op = "WritePacket"
            /\ ucall'[u].pkt.op > RESERVED9
            /\ ucall'[u].pkt.cl # Len(ucall'[u].pkt.content) )
          => /\ pc'[u] = "wp_check"
             /\ ConnectionState' = ConnectionState
       /\ ( /\ pc[u] = "wp_check"
            /\ pc'[u] \notin {"wp_check", "panic"}
            /\ wpkt[u].cl # Len(wpkt[u].content) )
          => /\ pc'[u] = "idle"
             /\ ret'[u].err = "InvalidContentLength"
             /\ ConnectionState' = ConnectionState]_vars

\* the length mismatch was reported on a closed endpoint
C8_Witness ==
  \E u \in Users :
    /\ pc[u] = "idle"
    /\ ucall[u].op = "WritePacket"
    /\ ucall[u].pkt.cl # Len(ucall[u].pkt.content)
    /\ ret[u].err = "InvalidContentLength"
    /\ closed

\* C9: no STREAM packet is pushed to the incoming queue or returned by
\* ReadPacket, from the queue or from the stale buffer, and every packet
\* pushed to the queue of a stream carries the id of that stream.
C9_StreamIsolation ==
  /\ \A i \in DOMAIN hist.pushed : hist.pushed[i].op # STREAM
  /\ \A i \in DOMAIN incoming : incoming[i].op # STREAM
  /\ \A i \in DOMAIN stale : stale[i].op # STREAM
  /\ \A i \in DOMAIN hist.got : hist.got[i].op # STREAM
  /\ \A i \in DOMAIN hist.spushed :
       /\ hist.spushed[i].pkt.op = STREAM
       /\ streamObjs[hist.spushed[i].obj].id = hist.spushed[i].pkt.id
  /\ \A i \in DOMAIN streamObjs :
       \A k \in DOMAIN streamObjs[i].queue : streamObjs[i].queue[k].id = streamObjs[i].id

\* two streams with different ids exist, a STREAM packet sits in the queue
\* of one of them, and a user packet of the same byte stream was returned by
\* ReadPacket after the close
C9_Witness ==
  /\ \E i, j \in DOMAIN streamObjs :
       /\ streamObjs[i].id # streamObjs[j].id
       /\ streamObjs[i].queue # <<>>
  /\ closed
  /\ hist.got # <<>>

\* C10: the step of the read loop that routes a STREAM frame of
\* content_length 0 whose id was registered when the frame was received
\* closes that stream and removes the id from the registry, with or without
\* a handler; it pushes nothing to any queue and does not close the endpoint.
C10_CloseSentinel ==
  [][( /\ pc["read"] = "rl_route"
       /\ pc'["read"] \notin {"rl_route", "panic"}
       /\ rl.isStream /\ rl.p.cl = 0 /\ hist.regAt # 0 )
     => /\ streamObjs'[hist.regAt].closed
        /\ rl.p.id \notin DOMAIN streams'
        /\ incoming' = incoming
        /\ hist'.pushed = hist.pushed /\ hist'.spushed = hist.spushed
        /\ \A i \in DOMAIN streamObjs : streamObjs'[i].queue = streamObjs[i].queue
        /\ closed' = closed
        /\ pc'["read"] \in ReadLabels \cup {"rl_parse"}]_vars

\* no handler was ever installed, and a stream made by NewStream was closed
\* by a sentinel and left the registry of an endpoint that is still open
C10_Witness ==
  /\ ~closed
  /\ ~handler /\ spawned = <<>>
  /\ \E i \in DOMAIN streamObjs :
       /\ streamObjs[i].closed
       /\ streamObjs[i].id \notin DOMAIN streams

\* ------------------------------------------------------------ metadata
\* The metadata package on its own: a caller encodes a triple, keeps the
\* first md.keep bytes of the buffer and decodes them.
MetadataIds == {0, 1, 255, 256, 65535}
MetadataOperations == {0, PING, STREAM, 256, 65535}
MetadataLengths == {0, 1, 255, 256, 65535, 65536, 16777215, 16777216, 2147483647}

MD_Encode ==
  /\ md.at = "start"
  /\ md' = [md EXCEPT !.at = "encoded",
                      !.buf = Encode(md.in.Id, md.in.Operation, md.in.ContentLength)]
  /\ UNCHANGED <<closed, error, connVars, writerVars, chanVars, queueVars, streamVars,
                 wg, panicked, procVars, rl, calls, ucall, scn, pings, sent, hist, tally>>

MD_Decode ==
  /\ md.at = "encoded"
  /\ LET r == Decode(SubSeq(md.buf, 1, md.keep)) IN
       md' = [md EXCEPT !.at = "decoded", !.out = r.m, !.err = r.err]
  /\ UNCHANGED <<closed, error, connVars, writerVars, chanVars, queueVars, streamVars,
                 wg, panicked, procVars, rl, calls, ucall, scn, pings, sent, hist, tally>>

MetadataInit ==
  /\ \E id \in MetadataIds, op \in MetadataOperations, cl \in MetadataLengths,
        k \in 0..Size :
       md = [NoCall EXCEPT !.at = "start", !.in = Metadata(id, op, cl), !.keep = k]
  /\ \E sc \in LoopScenarios : sc.frames = <<>> /\ InitOf(sc)

MetadataNext == MD_Encode \/ MD_Decode

MetadataSpec == MetadataInit /\ [][MetadataNext]_vars

\* C14: decoding the Size bytes that Encode made of an (id, operation,
\* content length) gives the same three values and no error, and decoding
\* fewer than Size bytes fails with InvalidBufferLength.
C14_RoundTrip ==
  md.at = "decoded" =>
    IF md.keep < Size
    THEN md.err = "InvalidBufferLength"
    ELSE md.err = Nil /\ md.out = md.in

C14_Witness ==
  /\ md.at = "decoded" /\ md.keep = Size /\ md.err = Nil
  /\ md.in = Metadata(256, 65535, 16777215) /\ md.out = md.in

\* C11: with no handler installed when the frame is received, the step of
\* the read loop that routes a STREAM frame with content_length > 0 pushes it
\* to no queue, not even to
\* the queue of a stream registered under its id, creates no stream, spawns
\* nothing and leaves the endpoint open.
C11_NoHandlerDrop ==
  [][( /\ pc["read"] = "rl_route"
       /\ pc'["read"] \notin {"rl_route", "panic"}
       /\ rl.p.op = STREAM /\ rl.p.cl > 0
       /\ ~hist.handlerAt )
     => /\ incoming' = incoming
        /\ hist'.pushed = hist.pushed /\ hist'.spushed = hist.spushed
        /\ streamObjs' = streamObjs /\ streams' = streams /\ spawned' = spawned
        /\ closed' = closed
        /\ pc'["read"] \in ReadLabels \cup {"rl_parse"}]_vars

\* a STREAM frame with payload was released to the pool although NewStream
\* had registered its id; no handler, no push, the endpoint open
C11_Witness ==
  /\ ~handler /\ ~hist.handlerAt /\ ~closed
  /\ hist.pool # <<>>
  /\ hist.pool[Len(hist.pool)].released = 1
  /\ pc["read"] \in ReadLabels
  /\ Len(sent) >= Len(hist.pool)
  /\ sent[Len(hist.pool)].op = STREAM /\ sent[Len(hist.pool)].cl > 0
  /\ sent[Len(hist.pool)].id \in DOMAIN streams
  /\ hist.spushed = <<>>

RECURSIVE IsSubseq(_, _)
IsSubseq(a, b) ==
  IF a = <<>> THEN TRUE
  ELSE IF b = <<>> THEN FALSE
  ELSE IF Head(a) = Head(b) THEN IsSubseq(Tail(a), Tail(b))
  ELSE IsSubseq(a, Tail(b))

IsQueued(p) == p.op \notin {PING, PONG, STREAM}

IsStreamData(p) == p.op = STREAM /\ p.cl > 0

\* the peer's PING and PONG frames carry no payload
PlainControl == \A i \in DOMAIN sent : sent[i].op \in {PING, PONG} => sent[i].cl = 0

C13_CloseJoinsLoops ==
  [][\A u \in Users :
       (pc[u] \in {"cl_ret", "raw_ret"} /\ pc'[u] = "idle")
       => \A l \in Loops : tally.done[l] = 1]_vars

\* C15: the header that the read loop decodes after a PING or PONG frame
\* with a content length above zero is the header of the frame the peer sent
\* next: the payload bytes of the control frame were passed over.
C15_ControlPayloadConsumed ==
  \A k \in DOMAIN hist.pool :
    (k > 1 /\ k <= Len(sent) /\ sent[k - 1].op \in {PING, PONG} /\ sent[k - 1].cl > 0)
    => /\ hist.pool[k].m.id = sent[k].id
       /\ hist.pool[k].m.op = sent[k].op
       /\ hist.pool[k].m.cl = sent[k].cl

\* C16: a packet that is not a stream packet and whose header and payload
\* the read loop had in full while the connection was still open is pushed
\* to the incoming queue by the routing step, whatever close() did in
\* between.
C16_ParsedNotDropped ==
  [][(/\ pc["read"] = "rl_route" /\ pc'["read"] \notin {"rl_route", "panic"}
      /\ ~rl.isStream /\ ~hist.closedAt)
     => hist'.pushed = Append(hist.pushed, rl.p)]_vars

\* writePacket has returned nil to p
WriteSucceeded(p) ==
  /\ ret[p].err = Nil
  /\ \/ p \in Users /\ pc[p] = "idle" /\ ucall[p].op = "WritePacket"
                    /\ ucall[p].pkt.op > RESERVED9
     \/ p = "ping" /\ pc[p] = "pl_ret"

\* C17: the signal to the flush loop never blocks a writer, and once
\* writePacket has succeeded, the write buffer is emptied to the socket by
\* the flush loop without any call of Flush, unless the connection is closed
\* or the socket stops taking writes.
C17_FlushWakeUp ==
  /\ [](\A p \in Procs : pc[p] = "wp_send" => ENABLED WP_Send(p))
  /\ (\E p \in Procs : WriteSucceeded(p))
       ~> (wbuf = <<>> \/ closed \/ faultW \/ werr # Nil)

C17_Witness ==
  /\ WriteSucceeded("u1") /\ ucall["u1"].pkt.cl = 1
  /\ wbuf = <<>> /\ ~closed /\ ~faultW /\ werr = Nil
  /\ pings = 0 /\ pc["ping"] = "pl_select"
  /\ Len(sock) = 2 * Size + 1 /\ pc["flush"] = "fl_recv" /\ flushCh = 0

\* C18: at the end of a graceful close() over a socket that takes writes,
\* the final flush leaves the write buffer empty: every byte that a
\* successful writePacket had buffered has reached the socket when close()
\* returns, whatever the flush loop was doing when the deadline expired.
C18_FinalFlush ==
  [][\A p \in Procs :
       (/\ pc[p] = "c_finalFlush" /\ pc'[p] # "c_finalFlush"
        /\ hist.cause = Nil /\ ~faultW /\ ~connClosed
        /\ \A q \in Procs \ {p} : wpkt[q] = NoPacket \/ WriteSucceeded(q) \/ pc[q] = "done")
       => wbuf' = <<>>]_vars

\* the read loop holds a STREAM packet with content, decoded under a handler
StreamDataHeld ==
  rl.p.op = STREAM /\ rl.p.cl > 0 /\ hist.handlerAt

\* the push of the held packet to stream object i, or its failure on a
\* closed stream, which ends the read loop
PushedOrFailed(i) ==
  /\ Len(streamObjs') = Len(streamObjs)
  /\ spawned' = spawned
  /\ streams' = streams
  /\ IF streamObjs[i].closed
     THEN streamObjs' = streamObjs /\ pc'["read"] = "c_cas"
     ELSE streamObjs' = [streamObjs EXCEPT ![i].queue = Append(@, rl.p)]

\* C19: under a handler, the routing of a STREAM packet with content whose
\* id the registry did not hold makes one new stream of that id, registers
\* it, starts the handler once with it and then pushes the packet to its
\* queue; the routing of one whose id the registry held pushes the packet
\* to the registered stream's queue and neither makes a stream nor starts
\* the handler (a push to a closed stream fails and ends the read loop).
C19_StreamCreation ==
  [][/\ (/\ pc["read"] = "rl_route" /\ pc'["read"] \notin {"rl_route", "panic"}
         /\ StreamDataHeld /\ hist.regAt = 0)
        => LET new == Len(streamObjs) + 1 IN
           /\ streamObjs' = Append(streamObjs, [id |-> rl.p.id, queue |-> <<>>, closed |-> FALSE])
           /\ rl.p.id \in DOMAIN streams' /\ streams'[rl.p.id] = new
           /\ \A i \in DOMAIN streams : i # rl.p.id => streams'[i] = streams[i]
           /\ spawned' = Append(spawned, new)
           /\ rl'.stream = new /\ pc'["read"] = "rl_streamPush"
     /\ (pc["read"] = "rl_streamPush" /\ pc'["read"] \notin {"rl_streamPush", "panic"})
        => PushedOrFailed(rl.stream)
     /\ (/\ pc["read"] = "rl_route" /\ pc'["read"] \notin {"rl_route", "panic"}
         /\ StreamDataHeld /\ hist.regAt # 0)
        => PushedOrFailed(hist.regAt)]_vars

C19_Witness ==
  /\ Len(sent) = 2 /\ \A k \in 1..2 : sent[k].op = STREAM /\ sent[k].cl > 0 /\ sent[k].id = 1
  /\ spawned = <<1>> /\ Len(streamObjs) = 1 /\ streams = (1 :> 1)
  /\ hist.spushed = <<[obj |-> 1, pkt |-> sent[1]], [obj |-> 1, pkt |-> sent[2]]>>
  /\ streamObjs[1].queue = <<sent[1], sent[2]>>

\* the read loop is through with the k-th packet it took from the pool: it
\* took the next one, or it has left
ThroughWith(k) == k < Len(hist.pool) \/ tally.done["read"] = 1

\* C20 as stated: every packet the read loop took from the pool and is
\* through with, on whatever path, was released once and not queued, or
\* queued once and not released.
C20_EveryPath ==
  \A k \in DOMAIN hist.pool :
    ThroughWith(k) => hist.pool[k].released + hist.pool[k].queued = 1

\* C20, amended: a packet taken from the pool is released at most once,
\* pushed to at most one queue, and never both; PING, PONG and STREAM
\* packets are the only ones released and never PING or PONG is queued; and
\* once the read loop has gone on to the next packet, the packet was
\* released once or queued once.  (On an error exit the packet held is
\* neither.)
C20_PoolDiscipline ==
  \A k \in DOMAIN hist.pool :
    LET e == hist.pool[k] IN
    /\ e.released <= 1 /\ e.queued <= 1 /\ e.released + e.queued <= 1
    /\ e.released = 1 => e.m.op \in {PING, PONG, STREAM}
    /\ e.queued = 1 => e.m.op \notin {PING, PONG}
    /\ k < Len(hist.pool) => e.released + e.queued = 1

C20_Witness ==
  /\ Len(hist.pool) = 2 /\ tally.done["read"] = 1
  /\ hist.pool[1].released = 1 /\ hist.pool[1].queued = 0
  /\ hist.pool[2].released = 0 /\ hist.pool[2].queued = 0

\* C21: no writePacket sends on the flush channel after close() has closed
\* it: no run panics, every writePacket returns nil or an error.
C21_NoSendOnClosed == ~panicked

\* C22: once a ReadPacket has returned ConnectionClosed, no ReadPacket
\* returns a packet any more: the end is reported only when no parsed packet
\* is left to serve.
C22_ClosedIsFinal ==
  [][hist.eof => hist'.got = hist.got]_vars

\* the closed flip was won by a Close or a Raw, not by a closeWithError
GracefulClose == hist.closer # Nil /\ hist.cause = Nil

\* C23: closed never goes back from true to false; a cause in the error
\* slot implies closed; and after a graceful close the error slot stays
\* nil, whatever errors the loops meet afterwards.
C23_ClosedAndError ==
  /\ [](error # Nil => closed)
  /\ [](GracefulClose => error = Nil)
  /\ [][closed => closed']_vars

\* a task closed gracefully, and a loop that then met an error and went
\* through closeWithError has returned
C23_Witness ==
  /\ GracefulClose /\ hist.closer \in Users /\ closed /\ error = Nil
  /\ \E l \in Loops : pc[l] = "done" /\ perr[l] # Nil

\* C24: the stream that NewStream(id) returned to a task is, for as long as
\* it is open, the stream the registry holds for id: the read loop does not
\* put another stream in its place, so inbound packets of id and the
\* handler get the object the task holds.
C24_UserStreamKept ==
  \A u \in Users :
    ( /\ ucall[u].op = "NewStream" /\ pc[u] = "idle" /\ ret[u].obj # 0
      /\ ~streamObjs[ret[u].obj].closed )
    => Get(ucall[u].id) = ret[u].obj

====
